---------------------------- MODULE Spec2Model ----------------------------
(***************************************************************************)
(* wvr-midi: two InputProvider implementations fed by a midir callback     *)
(* through an mpsc channel.                                                *)
(*   MidiProvider  (src/src/midi/controller.rs): generic controller with   *)
(*                 1024-slot pressed/toggled/values tables.                *)
(*   DjP8Provider  (src/src/midi/p8.rs): fixed-layout DJ controller with   *)
(*                 tap-tempo bpm per side.                                 *)
(* A behaviour starts right after one of the two constructors returned.    *)
(* The producer (midir callback thread) and the wall clock run             *)
(* concurrently with the host thread, so get() is modelled in steps:       *)
(* entry, one step per try_recv that yields a frame, and the return step   *)
(* taken when try_recv yields nothing.                                     *)
(*                                                                         *)
(* Units: wall-clock time advances in ticks of 500 ms.  f32 values are     *)
(* kept in thousandths (120 bpm is 120000, 64/127 is 503).                 *)
(***************************************************************************)
EXTENDS Integers, Sequences, FiniteSets

VARIABLES
    env,                \* what is outside the provider (fixed per behaviour)
    self,               \* the provider struct (MidiProvider or DjP8Provider)
    chan,               \* mpsc channel: frames sent and not yet received
    connected,          \* the Sender (owned by the midir callback) is alive
    pc,                 \* host thread: "idle" or inside get ("drain")
    left_sync_pressed,  \* get's local snapshot, p8.rs:164
    right_sync_pressed, \* get's local snapshot, p8.rs:165
    result,             \* what the last get call returned, and for which name
    hist                \* history of the run, read by no action's guard or effect:
                        \*   prev    the last frame try_recv handed to get
                        \*   repeat  that frame equalled the one received before it
                        \*   late    a frame was received after the Sender was dropped
                        \*   closed  a get call has ended its loop on Disconnected
                        \*   budget  frames buffered at get entry, less those received
                        \*   since_edge  ticks since each side's last observed
                        \*               sync edge (never swept)
                        \*   taps    progress through "first edge ever, then
                        \*           edges 0.5 s apart", per side
                        \*   rose    a rising sync edge of the side was applied
                        \*           in the current poll
                        \*   skipped an unusable frame was received in the
                        \*           current poll
                        \*   cc      per control the device has, the value of the
                        \*           last ControlChange the callback sent
                        \*   renamed set_name was called since the last get
                        \*   zeroed  a NoteOn of velocity 0 has released a
                        \*           pressed index

vars == <<env, self, chan, connected, pc, left_sync_pressed, right_sync_pressed,
          result, hist>>

----------------------------------------------------------------------------
(* Bounds of the model *)

\* frames the channel holds at most (the mpsc channel itself is unbounded)
MaxQueue == 2
\* ticks an Instant is followed for; the clock stops at this age until a
\* poll sweeps or replaces the Instant
MaxElapsed == 6
\* largest host time handed to set_time
MaxHostTime == 1

----------------------------------------------------------------------------
(* Program constants *)

\* [bool; 1024] etc., controller.rs:20-26
TableLen == 1024

\* f32 +inf, the result of 60.0 / 0.0 (p8.rs:221-222); larger than any
\* finite bpm the model computes
Infinity == 2000000000

None == [type |-> "None"]
Some(t, x) == [type |-> t, v |-> x]
Panic == [type |-> "Panic"]

Sides == {"left", "right"}


----------------------------------------------------------------------------
(* Frames: Vec<u8> as sent by the midir callback (controller.rs:47-50,     *)
(* p8.rs:64-66), status byte first.                                        *)

NoteOnFrame(note, velocity) == <<144, note, velocity>>
NoteOffFrame(note, velocity) == <<128, note, velocity>>
ControlChangeFrame(control, value) == <<176, control, value>>
\* a pitch-bend message: decodable, but of a kind neither provider handles
PitchBendFrame == <<224, 0, 64>>
\* a note-on cut short after its first data byte: undecodable
TruncatedFrame == <<144, 60>>
EmptyFrame == <<>>

NoFrame == <<255, 255, 255, 255>>

(* wmidi::MidiMessage::try_from(&[u8]) as called at controller.rs:106 and  *)
(* p8.rs:172, for channel-voice and real-time messages: the first byte     *)
(* must be a status byte, the data bytes the status needs must be present  *)
(* and below 128.  A note-on of velocity 0 stays a NoteOn.                 *)
DataOk(frame, n) ==
    /\ Len(frame) >= n + 1
    /\ \A k \in 2..(n + 1) : frame[k] < 128

\* mutant: a decoder that takes missing data bytes as 0 and checks none
DecodePadded(frame) ==
    IF frame = <<>> \/ frame[1] < 128 THEN [kind |-> "Err"]
    ELSE LET status == (frame[1] \div 16) * 16
             padded == frame \o <<0, 0>>
         IN  CASE status = 128 ->
                    [kind |-> "NoteOff", a |-> padded[2], b |-> padded[3]]
               [] status = 144 ->
                    [kind |-> "NoteOn", a |-> padded[2], b |-> padded[3]]
               [] status = 176 ->
                    [kind |-> "ControlChange", a |-> padded[2], b |-> padded[3]]
               [] OTHER -> [kind |-> "Other"]

Decode(frame) ==
    IF frame = <<>> \/ frame[1] < 128 THEN [kind |-> "Err"]
    ELSE LET status == (frame[1] \div 16) * 16 IN
         CASE status = 128 ->
                IF DataOk(frame, 2)
                THEN [kind |-> "NoteOff", a |-> frame[2], b |-> frame[3]]
                ELSE [kind |-> "Err"]
           [] status = 144 ->
                IF DataOk(frame, 2)
                THEN [kind |-> "NoteOn", a |-> frame[2], b |-> frame[3]]
                ELSE [kind |-> "Err"]
           [] status = 176 ->
                IF DataOk(frame, 2)
                THEN [kind |-> "ControlChange", a |-> frame[2], b |-> frame[3]]
                ELSE [kind |-> "Err"]
           [] status \in {160, 224} ->
                IF DataOk(frame, 2) THEN [kind |-> "Other"] ELSE [kind |-> "Err"]
           [] status \in {192, 208} ->
                IF DataOk(frame, 1) THEN [kind |-> "Other"] ELSE [kind |-> "Err"]
           [] OTHER ->
                IF frame[1] >= 248 THEN [kind |-> "Other"] ELSE [kind |-> "Err"]

----------------------------------------------------------------------------
(* Names.  MidiProvider inspects the characters of a uniform name          *)
(* (starts_with, split, parse), so its names are sequences of one-char     *)
(* strings.  DjP8Provider only matches whole names, so its names are       *)
(* plain strings.                                                          *)

W_pressed == <<"p", "r", "e", "s", "s", "e", "d">>
W_pressed_time == W_pressed \o <<"_", "t", "i", "m", "e">>
W_toggled == <<"t", "o", "g", "g", "l", "e", "d">>
W_value == <<"v", "a", "l", "u", "e">>
W_values == W_value \o <<"s">>
W_midi == <<"m", "i", "d", "i">>
Dot == <<".">>

DigitChars == <<"0", "1", "2", "3", "4", "5", "6", "7", "8", "9">>

\* format!("{:}", n) for an integer n >= 0
RECURSIVE Decimal(_)
Decimal(n) ==
    IF n < 10 THEN <<DigitChars[n + 1]>>
    ELSE Decimal(n \div 10) \o <<DigitChars[(n % 10) + 1]>>

\* str::starts_with
StartsWith(s, prefix) ==
    /\ Len(s) >= Len(prefix)
    /\ SubSeq(s, 1, Len(prefix)) = prefix

\* position of the first "." of s at or after position k, or 0
RECURSIVE DotFrom(_, _)
DotFrom(s, k) ==
    IF k > Len(s) THEN 0
    ELSE IF s[k] = "." THEN k
    ELSE DotFrom(s, k + 1)

\* uniform_name.split('.').nth(1): the text between the first and the
\* second '.', absent when the name holds no '.'
SplitNth1(s) ==
    LET d1 == DotFrom(s, 1) IN
    IF d1 = 0 THEN [some |-> FALSE]
    ELSE LET d2 == DotFrom(s, d1 + 1) IN
         [some |-> TRUE,
          v |-> SubSeq(s, d1 + 1, IF d2 = 0 THEN Len(s) ELSE d2 - 1)]

IsDigit(c) == \E k \in 1..10 : DigitChars[k] = c
DigitValue(c) == (CHOOSE k \in 1..10 : DigitChars[k] = c) - 1

\* the value of a digit string, saturating at 1000000: the code only
\* compares the index with the table length, and a usize overflow (an Err)
\* takes the same branch as an index that large
RECURSIVE DigitsValue(_, _)
DigitsValue(s, acc) ==
    IF s = <<>> THEN acc
    ELSE LET x == acc * 10 + DigitValue(Head(s)) IN
         DigitsValue(Tail(s), IF x > 1000000 THEN 1000000 ELSE x)

\* str::parse::<usize>: an optional '+', then one or more ASCII digits
ParseUsize(s) ==
    LET body == IF s # <<>> /\ Head(s) = "+" THEN Tail(s) ELSE s IN
    IF body # <<>> /\ \A k \in 1..Len(body) : IsDigit(body[k])
    THEN [ok |-> TRUE, v |-> DigitsValue(body, 0)]
    ELSE [ok |-> FALSE]

----------------------------------------------------------------------------
(* MidiProvider, src/src/midi/controller.rs                                *)

Slots == 0..(TableLen - 1)

\* the struct MidiProvider::new returns, controller.rs:58-71
MidiProviderNew(name) ==
    [provider |-> "MidiProvider",
     name |-> name,
     time |-> 0,
     pressed |-> [i \in Slots |-> FALSE],
     pressed_time |-> [i \in Slots |-> 0],
     toggled |-> [i \in Slots |-> FALSE],
     toggled_time |-> [i \in Slots |-> 0],
     values |-> [i \in Slots |-> 0]]

IsMidi == self.provider = "MidiProvider"

\* ControlChange arm, controller.rs:108-114
MidiControlChange(s, control_number, control_value) ==
    [s EXCEPT !.values[control_number] = control_value]

\* mutant: the toggle flips on every note-on of velocity > 0, held or not
MidiNoteOnRetrigger(s, note_number, note_value) ==
    IF note_value > 0
    THEN [s EXCEPT !.pressed[note_number] = TRUE,
                   !.toggled[note_number] = ~s.toggled[note_number],
                   !.pressed_time[note_number] = s.time,
                   !.toggled_time[note_number] = s.time]
    ELSE [s EXCEPT !.pressed[note_number] = FALSE]

\* NoteOn arm, controller.rs:115-136
MidiNoteOn(s, note_number, note_value) ==
    LET was_pressed == s.pressed[note_number]
        now_pressed == note_value > 0
    IN  IF ~was_pressed /\ now_pressed
        THEN [s EXCEPT !.pressed[note_number] = now_pressed,
                       !.toggled[note_number] = ~s.toggled[note_number],
                       !.pressed_time[note_number] = s.time,
                       !.toggled_time[note_number] = s.time]
        ELSE [s EXCEPT !.pressed[note_number] = now_pressed]

\* mutant: a release leaves the toggle as it is
MidiNoteOffNoToggle(s, note_number) ==
    [s EXCEPT !.pressed[note_number] = FALSE]

\* mutant: a release stamps the press time as well
MidiNoteOffStampsBoth(s, note_number) ==
    IF s.pressed[note_number]
    THEN [s EXCEPT !.pressed[note_number] = FALSE,
                   !.toggled[note_number] = ~s.toggled[note_number],
                   !.pressed_time[note_number] = s.time,
                   !.toggled_time[note_number] = s.time]
    ELSE s

\* NoteOff arm, controller.rs:137-149
MidiNoteOff(s, note_number) ==
    LET was_pressed == s.pressed[note_number]
    IN  IF was_pressed # FALSE
        THEN [s EXCEPT !.pressed[note_number] = FALSE,
                       !.toggled[note_number] = ~s.toggled[note_number],
                       !.toggled_time[note_number] = s.time]
        ELSE [s EXCEPT !.pressed[note_number] = FALSE]

\* the body of the drain loop for one received frame, controller.rs:102-152
MidiApply(s, frame) ==
    IF frame = <<>> THEN s
    ELSE LET m == Decode(frame) IN
         CASE m.kind = "ControlChange" -> MidiControlChange(s, m.a, m.b)
           [] m.kind = "NoteOn" -> MidiNoteOn(s, m.a, m.b)
           [] m.kind = "NoteOff" -> MidiNoteOff(s, m.a)
           [] OTHER -> s

\* provides, controller.rs:90-96
MidiProvides(s) ==
    {s.name \o Dot \o W_pressed,
     s.name \o Dot \o W_toggled,
     s.name \o Dot \o W_values}

\* table[index] of a Rust array: a panic outside the table
Index(table, index, type) ==
    IF index \in DOMAIN table THEN Some(type, table[index]) ELSE Panic

\* mutant: the bound check lets the table length itself through
InBoundsInclusive(index) == index <= TableLen

\* index < self.pressed.len(), controller.rs:157,164,171,178
InBounds(index) == index < TableLen

\* mutant: a segment that is no index ends the resolution with None
IndexedNoFallThrough(uniform_name, prefix) ==
    IF ~StartsWith(uniform_name, prefix) THEN "skip"
    ELSE LET seg == SplitNth1(uniform_name) IN
         IF ~seg.some THEN "none"
         ELSE LET index == ParseUsize(seg.v) IN
              IF ~index.ok THEN "none"
              ELSE IF index.v < TableLen THEN "hit" ELSE "skip"

\* one of the four indexed lookups, controller.rs:155-182:
\*   "skip" the lookup does not apply, the code goes on to the next one
\*   "none" split('.').nth(1)? found no second segment: get returns None
\*   "hit"  the lookup returns the slot
Indexed(uniform_name, prefix) ==
    IF ~StartsWith(uniform_name, prefix) THEN "skip"
    ELSE LET seg == SplitNth1(uniform_name) IN
         IF ~seg.some THEN "none"
         ELSE LET index == ParseUsize(seg.v) IN
              IF index.ok /\ InBounds(index.v) THEN "hit" ELSE "skip"

\* [T; 1024]::to_vec
ToVec(table) == [k \in 1..TableLen |-> table[k - 1]]

\* the provider-scoped names, controller.rs:184-192
MidiAggregate(s, uniform_name) ==
    IF uniform_name = s.name \o Dot \o W_pressed
    THEN Some("BoolArray", ToVec(s.pressed))
    ELSE IF uniform_name = s.name \o Dot \o W_toggled
    THEN Some("BoolArray", ToVec(s.toggled))
    ELSE IF uniform_name = s.name \o Dot \o W_values
    THEN Some("ByteArray", ToVec(s.values))
    ELSE None

\* name resolution, controller.rs:155-192.  Timestamps are f32, in thousandths.
MidiRoute(s, uniform_name) ==
    LET index == ParseUsize(SplitNth1(uniform_name).v).v
        r1 == Indexed(uniform_name, W_pressed_time)
        r2 == Indexed(uniform_name, W_pressed)
        r3 == Indexed(uniform_name, W_toggled)
        r4 == Indexed(uniform_name, W_value)
        float(x) == IF x.type = "Panic" THEN x ELSE Some("Float", x.v * 1000)
    IN  IF r1 = "none" THEN None
        ELSE IF r1 = "hit" THEN float(Index(s.pressed_time, index, "Float"))
        ELSE IF r2 = "none" THEN None
        ELSE IF r2 = "hit" THEN Index(s.pressed, index, "Bool")
        ELSE IF r3 = "none" THEN None
        ELSE IF r3 = "hit" THEN Index(s.toggled, index, "Bool")
        ELSE IF r4 = "none" THEN None
        ELSE IF r4 = "hit" THEN Index(s.values, index, "Int")
        ELSE MidiAggregate(s, uniform_name)

----------------------------------------------------------------------------
(* DjP8Provider, src/src/midi/p8.rs                                        *)

\* Option<Instant>::None (p8.rs:14,17).  A stored Instant is kept as the
\* number of ticks elapsed since it was taken: Instant::now() stores 0,
\* the clock ages it, and elapsed() reads it.
NoInstant == -1

\* the struct DjP8Provider::new returns, p8.rs:74-111
DjP8ProviderNew ==
    [provider |-> "DjP8Provider",
     last_left_sync_press |-> NoInstant, left_bpm |-> 0,
     last_right_sync_press |-> NoInstant, right_bpm |-> 0,
     left_low |-> 0, left_mid |-> 0, left_high |-> 0,
     right_low |-> 0, right_mid |-> 0, right_high |-> 0,
     left_pad_1 |-> FALSE, left_pad_2 |-> FALSE,
     left_pad_3 |-> FALSE, left_pad_4 |-> FALSE,
     right_pad_1 |-> FALSE, right_pad_2 |-> FALSE,
     right_pad_3 |-> FALSE, right_pad_4 |-> FALSE,
     left_play |-> FALSE, left_cue |-> FALSE,
     left_sync |-> FALSE, left_shift |-> FALSE,
     right_play |-> FALSE, right_cue |-> FALSE,
     right_sync |-> FALSE, right_shift |-> FALSE]

IsP8 == self.provider = "DjP8Provider"

\* the control numbers of the ControlChange arm, p8.rs:176-185
P8Controls == {68, 70, 72, 80, 82, 84}
P8ControlField(control_number) ==
    CASE control_number = 68 -> "left_low"
      [] control_number = 70 -> "left_mid"
      [] control_number = 72 -> "left_high"
      [] control_number = 80 -> "right_low"
      [] control_number = 82 -> "right_mid"
      [] control_number = 84 -> "right_high"

\* the note numbers of the NoteOn arm, p8.rs:189-211
P8Notes == {25, 26, 27, 28, 73, 74, 75, 76, 33, 34, 35, 99, 81, 82, 83, 47}
P8NoteField(note_number) ==
    CASE note_number = 25 -> "left_pad_1"
      [] note_number = 26 -> "left_pad_2"
      [] note_number = 27 -> "left_pad_3"
      [] note_number = 28 -> "left_pad_4"
      [] note_number = 73 -> "right_pad_1"
      [] note_number = 74 -> "right_pad_2"
      [] note_number = 75 -> "right_pad_3"
      [] note_number = 76 -> "right_pad_4"
      [] note_number = 33 -> "left_play"
      [] note_number = 34 -> "left_cue"
      [] note_number = 35 -> "left_sync"
      [] note_number = 99 -> "left_shift"
      [] note_number = 81 -> "right_play"
      [] note_number = 82 -> "right_cue"
      [] note_number = 83 -> "right_sync"
      [] note_number = 47 -> "right_shift"

\* mutant: control 68 drives the low knob of both sides
P8ControlChangeGanged(s, control_number, control_value) ==
    IF control_number = 68
    THEN [s EXCEPT !.left_low = control_value, !.right_low = control_value]
    ELSE IF control_number \in P8Controls
    THEN [s EXCEPT ![P8ControlField(control_number)] = control_value]
    ELSE s

\* the note of a side's sync button, p8.rs:199 and 207
SyncNote(side) == IF side = "left" THEN 35 ELSE 83

\* ControlChange arm, p8.rs:174-186
P8ControlChange(s, control_number, control_value) ==
    IF control_number \in P8Controls
    THEN [s EXCEPT ![P8ControlField(control_number)] = control_value]
    ELSE s

\* NoteOn arm, p8.rs:187-212
P8NoteOn(s, note_number, note_value) ==
    IF note_number \in P8Notes
    THEN [s EXCEPT ![P8NoteField(note_number)] = (note_value # 0)]
    ELSE s

\* the body of the drain loop for one received frame, p8.rs:168-215:
\* the match has no NoteOff arm
P8Apply(s, frame) ==
    IF frame = <<>> THEN s
    ELSE LET m == Decode(frame) IN
         CASE m.kind = "ControlChange" -> P8ControlChange(s, m.a, m.b)
           [] m.kind = "NoteOn" -> P8NoteOn(s, m.a, m.b)
           [] OTHER -> s

\* Duration of an Instant that is `ticks` old
Millis(ticks) == ticks * 500
\* Duration::as_secs: whole seconds
AsSecs(ticks) == Millis(ticks) \div 1000

\* last.elapsed().as_secs() > 2, p8.rs:153,159
Stale(last) == AsSecs(last) > 2

\* the staleness sweep of one side, p8.rs:152-162
Sweep(last) == IF last # NoInstant /\ Stale(last) THEN NoInstant ELSE last

\* 60.0 / (elapsed.as_secs() as f32 + elapsed.subsec_micros() as f32 /
\* 1_000_000.0), p8.rs:221-222 and 230-231, in thousandths of a bpm
Bpm(elapsed) ==
    IF Millis(elapsed) = 0 THEN Infinity ELSE 60000000 \div Millis(elapsed)

\* mutant: bpm is recomputed in every poll that finds the button held
EdgeBpmHeld(sync, was_pressed, last, bpm) ==
    IF sync /\ last # NoInstant THEN Bpm(last) ELSE bpm

\* a sync edge of one side, p8.rs:218-225 and 227-234: the new bpm
EdgeBpm(sync, was_pressed, last, bpm) ==
    IF sync /\ ~was_pressed /\ last # NoInstant THEN Bpm(last) ELSE bpm

\* mutant: an edge sets the reference only when there is none
EdgeInstantKeep(sync, was_pressed, last) ==
    IF sync /\ ~was_pressed /\ last = NoInstant THEN 0 ELSE last

\* a sync edge of one side: the new reference (Instant::now())
EdgeInstant(sync, was_pressed, last) ==
    IF sync /\ ~was_pressed THEN 0 ELSE last

\* p8.rs:218-234
P8SyncEdges(s, left_was, right_was) ==
    [s EXCEPT
       !.left_bpm = EdgeBpm(s.left_sync, left_was, s.last_left_sync_press, @),
       !.last_left_sync_press = EdgeInstant(s.left_sync, left_was, @),
       !.right_bpm = EdgeBpm(s.right_sync, right_was, s.last_right_sync_press, @),
       !.last_right_sync_press = EdgeInstant(s.right_sync, right_was, @)]

\* provides, p8.rs:122-149
P8Provides ==
    {"left_bpm", "right_bpm",
     "left_low", "left_mid", "left_high",
     "right_low", "right_mid", "right_high",
     "left_pad_1", "left_pad_2", "left_pad_3", "left_pad_4",
     "right_pad_1", "right_pad_2", "right_pad_3", "right_pad_4",
     "left_play", "left_cue", "left_sync", "left_shift",
     "right_play", "right_cue", "right_sync", "right_shift"}

P8FloatNames == {"left_bpm", "right_bpm"}
P8KnobNames == {"left_low", "left_mid", "left_high",
                "right_low", "right_mid", "right_high"}
P8ButtonNames == {"left_pad_1", "left_pad_2", "left_pad_3", "left_pad_4",
                  "right_pad_1", "right_pad_2", "right_pad_3", "right_pad_4",
                  "left_play", "left_cue", "left_sync", "left_shift",
                  "right_play", "right_cue", "right_sync", "right_shift"}

\* name resolution, p8.rs:236-269; knobs are value as f32 / 127.0
P8Route(s, uniform_name) ==
    IF uniform_name \in P8FloatNames THEN Some("Float", s[uniform_name])
    ELSE IF uniform_name \in P8KnobNames
    THEN Some("Float", (s[uniform_name] * 1000) \div 127)
    ELSE IF uniform_name \in P8ButtonNames THEN Some("Bool", s[uniform_name])
    ELSE None

----------------------------------------------------------------------------
(* The environment of a behaviour: which provider was constructed, the     *)
(* frames the connected device emits, the names the host asks for, the     *)
(* names it passes to set_name and the times it passes to set_time.        *)

Name(prefix, index) == prefix \o Dot \o Decimal(index)

Setup(provider, device, uniforms, names, times) ==
    [provider |-> provider, device |-> device, uniforms |-> uniforms,
     names |-> names, times |-> times]

\* a keyboard: one key, released by note-off or by note-on of velocity 0
MidiKeys ==
    Setup("MidiProvider",
          {NoteOnFrame(60, 127), NoteOnFrame(60, 0), NoteOffFrame(60, 0)},
          {Name(W_pressed, 60), Name(W_toggled, 60)},
          {}, {})

\* the same key under a host that moves its clock with set_time
MidiClock ==
    Setup("MidiProvider",
          {NoteOnFrame(60, 127), NoteOffFrame(60, 0)},
          {Name(W_pressed_time, 60)},
          {}, 0..MaxHostTime)

\* a knob, and a key with the knob's number
MidiKnobs ==
    Setup("MidiProvider",
          {ControlChangeFrame(7, 64), ControlChangeFrame(7, 127),
           NoteOnFrame(7, 127)},
          {Name(W_value, 7), W_midi \o Dot \o W_values},
          {}, {})

\* a device that also sends frames the provider cannot use
MidiNoise ==
    Setup("MidiProvider",
          {EmptyFrame, TruncatedFrame, PitchBendFrame, NoteOnFrame(60, 127)},
          {Name(W_pressed, 60)},
          {}, {})

\* provider names the host may set: plain, and ones that look like an
\* indexed uniform name
HostNames ==
    {W_midi, <<>>, W_value, Name(W_pressed, 5), Name(W_toggled, 2000)}

IndexedPrefixes == {W_pressed_time, W_pressed, W_toggled, W_value}

\* indexes a host may ask for: inside the table, its last slot, the first
\* index past it and one far outside
ProbeIndexes == {5, TableLen - 1, TableLen, 5000}

\* uniform names a host may ask for: indexed ones in and out of the table,
\* malformed ones and unknown ones
HostUniforms ==
    {Name(prefix, index) : prefix \in IndexedPrefixes, index \in ProbeIndexes}
    \cup {W_pressed, W_pressed \o Dot, W_pressed \o Dot \o <<"x">>,
          W_pressed \o Dot \o <<"+", "5">>, W_pressed \o Dot \o <<"-", "5">>,
          Name(W_value, 5) \o Dot \o W_pressed,
          W_midi, <<"f", "o", "o", ".", "5">>}

\* a host that renames the provider and asks for every kind of name
MidiRouting ==
    Setup("MidiProvider",
          {NoteOnFrame(5, 127)},
          HostUniforms, HostNames, {})

\* one P8 button, released by note-off or by note-on of velocity 0
P8Button(note) ==
    Setup("DjP8Provider",
          {NoteOnFrame(note, 127), NoteOnFrame(note, 0), NoteOffFrame(note, 0)},
          {P8NoteField(note)}
              \cup (IF note = 35 THEN {"left_bpm"} ELSE {})
              \cup (IF note = 83 THEN {"right_bpm"} ELSE {}),
          {}, {})

\* the sync button of one side, tapped: pressed, and released by a note-on
\* of velocity 0 as the P8 sends it
P8Sync(side) ==
    Setup("DjP8Provider",
          {NoteOnFrame(SyncNote(side), 127), NoteOnFrame(SyncNote(side), 0)},
          {P8NoteField(SyncNote(side)), side \o "_bpm"},
          {}, {})

\* P8 knobs, and a control and a note the P8 does not map
P8Knobs ==
    Setup("DjP8Provider",
          {ControlChangeFrame(68, 64), ControlChangeFrame(68, 127),
           ControlChangeFrame(82, 64), ControlChangeFrame(69, 64),
           NoteOnFrame(82, 127)},
          {"left_low", "right_mid", "right_cue"},
          {}, {})

\* a P8 host that asks for every advertised name and an unknown one
P8Routing ==
    Setup("DjP8Provider",
          {NoteOnFrame(33, 127), EmptyFrame, TruncatedFrame, PitchBendFrame},
          P8Provides \cup {"pressed.5"},
          {}, {})

Setups ==
    {MidiKeys, MidiClock, MidiKnobs, MidiNoise, MidiRouting, P8Knobs,
     P8Routing}
    \cup {P8Button(note) : note \in P8Notes \ {SyncNote(side) : side \in Sides}}
    \cup {P8Sync(side) : side \in Sides}

----------------------------------------------------------------------------
(* The channel, std::sync::mpsc                                            *)

\* mutant: once the Sender is gone the buffered frames are lost
TryRecvDropsOnClose(queue, alive) ==
    IF ~alive THEN [status |-> "Disconnected"]
    ELSE IF queue # <<>> THEN [status |-> "Ok", message |-> Head(queue)]
    ELSE [status |-> "Empty"]

\* mutant: Receiver::recv, which waits while the channel is empty and the
\* Sender alive
TryRecvBlocking(queue, alive) ==
    IF queue # <<>> THEN [status |-> "Ok", message |-> Head(queue)]
    ELSE IF alive THEN [status |-> "Waiting"]
    ELSE [status |-> "Disconnected"]

\* mutant: a channel that hands out the newest buffered frame first
TryRecvNewest(queue, alive) ==
    IF queue # <<>> THEN [status |-> "Ok", message |-> queue[Len(queue)]]
    ELSE IF alive THEN [status |-> "Empty"]
    ELSE [status |-> "Disconnected"]

\* Receiver::try_recv (controller.rs:101, p8.rs:167): a buffered frame is
\* handed out whether or not the Sender is still alive
TryRecv(queue, alive) ==
    IF queue # <<>> THEN [status |-> "Ok", message |-> Head(queue)]
    ELSE IF alive THEN [status |-> "Empty"]
    ELSE [status |-> "Disconnected"]

----------------------------------------------------------------------------
(* Initial state: right after MidiProvider::new or DjP8Provider::new       *)

NoResult == [call |-> "none"]

\* the control numbers the connected device sends
DeviceControls ==
    {Decode(frame).a :
        frame \in {f \in env.device : Decode(f).kind = "ControlChange"}}

\* a frame the drain loop skips in both providers: empty (controller.rs:
\* 102-104), undecodable (106) or of a kind no arm names (150; p8.rs:213)
Noise(frame) == frame = <<>> \/ Decode(frame).kind \in {"Err", "Other"}


Init ==
    /\ env \in Setups
    /\ self = IF env.provider = "MidiProvider"
              THEN MidiProviderNew(W_midi)
              ELSE DjP8ProviderNew
    /\ chan = <<>>
    /\ connected = TRUE
    /\ pc = "idle"
    /\ left_sync_pressed = FALSE
    /\ right_sync_pressed = FALSE
    /\ result = NoResult
    /\ hist = [prev |-> NoFrame, repeat |-> FALSE, late |-> FALSE,
               closed |-> FALSE, budget |-> 0,
               since_edge |-> [side \in Sides |-> NoInstant],
               taps |-> [side \in Sides |-> [edges |-> 0, live |-> TRUE]],
               rose |-> [side \in Sides |-> FALSE],
               skipped |-> FALSE,
               cc |-> [c \in DeviceControls |-> 0],
               renamed |-> FALSE,
               zeroed |-> FALSE]

----------------------------------------------------------------------------
(* The producer thread and the clock                                       *)

\* the midir callback, controller.rs:47-50 and p8.rs:64-66: tx.send(frame)
\* history after the callback sent `frame`
Sent(frame) ==
    IF Decode(frame).kind = "ControlChange"
    THEN [hist EXCEPT !.cc[Decode(frame).a] = Decode(frame).b]
    ELSE hist

Send ==
    /\ connected
    /\ Len(chan) < MaxQueue
    /\ \E frame \in env.device :
          /\ chan' = Append(chan, frame)
          /\ hist' = Sent(frame)
    /\ UNCHANGED <<env, self, connected, pc, left_sync_pressed,
                   right_sync_pressed, result>>

\* the midir connection ends and drops the callback with its Sender
Disconnect ==
    /\ connected
    /\ connected' = FALSE
    /\ UNCHANGED <<env, self, chan, pc, left_sync_pressed,
                   right_sync_pressed, result, hist>>

Older(last) == IF last = NoInstant THEN last ELSE last + 1
OlderCapped(last) ==
    IF last = NoInstant \/ last >= MaxElapsed THEN last ELSE last + 1

\* 500 ms pass: every stored Instant is one tick older (only DjP8Provider
\* reads the clock, p8.rs:3)
Tick ==
    /\ IsP8
    /\ self.last_left_sync_press < MaxElapsed
    /\ self.last_right_sync_press < MaxElapsed
    /\ self' = [self EXCEPT !.last_left_sync_press = Older(@),
                            !.last_right_sync_press = Older(@)]
    /\ hist' = [hist EXCEPT
                   !.since_edge = [side \in Sides |-> OlderCapped(@[side])]]
    /\ UNCHANGED <<env, chan, connected, pc, left_sync_pressed,
                   right_sync_pressed, result>>

----------------------------------------------------------------------------
(* The host thread: MidiProvider                                           *)

\* set_name, controller.rs:86-88
MidiSetName ==
    /\ IsMidi /\ pc = "idle"
    /\ \E name \in env.names : self' = [self EXCEPT !.name = name]
    /\ hist' = [hist EXCEPT !.renamed = TRUE]
    /\ UNCHANGED <<env, chan, connected, pc, left_sync_pressed,
                   right_sync_pressed, result>>

\* set_property, controller.rs:98: an empty body
MidiSetProperty ==
    /\ IsMidi /\ pc = "idle"
    /\ UNCHANGED vars

\* set_time, controller.rs:195-197
MidiSetTime ==
    /\ IsMidi /\ pc = "idle"
    /\ \E time \in env.times : self' = [self EXCEPT !.time = time]
    /\ UNCHANGED <<env, chan, connected, pc, left_sync_pressed,
                   right_sync_pressed, result, hist>>

\* history: one frame fewer is left of those buffered at entry; below zero
\* the call has received more than was buffered when it started
Spent(n) == IF n < 0 THEN n ELSE n - 1

\* history after try_recv handed out `frame`
Received(frame) ==
    [hist EXCEPT !.prev = frame,
                 !.repeat = (frame = hist.prev),
                 !.late = (@ \/ ~connected),
                 !.budget = Spent(@),
                 !.skipped = (@ \/ Noise(frame))]

\* whether applying `frame` releases a pressed index by a NoteOn of
\* velocity 0
ZeroRelease(s, frame) ==
    /\ Decode(frame).kind = "NoteOn"
    /\ Decode(frame).b = 0
    /\ s.pressed[Decode(frame).a]

\* get is entered, controller.rs:100
MidiGetEnter ==
    /\ IsMidi /\ pc = "idle"
    /\ pc' = "drain"
    /\ result' = NoResult
    /\ hist' = [hist EXCEPT !.budget = Len(chan)]
    /\ UNCHANGED <<env, self, chan, connected, left_sync_pressed,
                   right_sync_pressed>>

\* one turn of the drain loop: try_recv yields a frame, controller.rs:101-153
MidiGetRecv ==
    /\ IsMidi /\ pc = "drain"
    /\ TryRecv(chan, connected).status = "Ok"
    /\ self' = MidiApply(self, TryRecv(chan, connected).message)
    /\ chan' = Tail(chan)
    /\ hist' = [Received(TryRecv(chan, connected).message) EXCEPT
                   !.zeroed = (@ \/ ZeroRelease(self,
                                        TryRecv(chan, connected).message))]
    /\ UNCHANGED <<env, connected, pc, left_sync_pressed,
                   right_sync_pressed, result>>

\* the names the host asks for: the setup's, and what provides() advertises
MidiUniforms == env.uniforms \cup MidiProvides(self)

\* try_recv yields Err: the loop ends, the name is resolved and get
\* returns, controller.rs:101 and 155-192.  get does not read uniform_name
\* before this point, so the name is bound here.
MidiGetReturn ==
    /\ IsMidi /\ pc = "drain"
    /\ TryRecv(chan, connected).status \in {"Empty", "Disconnected"}
    /\ \E uniform_name \in MidiUniforms :
          result' = [call |-> "get", name |-> uniform_name,
                     value |-> MidiRoute(self, uniform_name),
                     end |-> TryRecv(chan, connected).status]
    /\ pc' = "idle"
    /\ hist' = [hist EXCEPT !.budget = 0, !.closed = (@ \/ ~connected),
                            !.skipped = FALSE, !.renamed = FALSE]
    /\ UNCHANGED <<env, self, chan, connected, left_sync_pressed,
                   right_sync_pressed>>

----------------------------------------------------------------------------
(* The host thread: DjP8Provider                                           *)

\* set_name, p8.rs:120: an empty body
P8SetName ==
    /\ IsP8 /\ pc = "idle"
    /\ UNCHANGED vars

\* get is entered: staleness sweep and sync snapshot, p8.rs:151-165
P8GetEnter ==
    /\ IsP8 /\ pc = "idle"
    /\ self' = [self EXCEPT !.last_left_sync_press = Sweep(@),
                            !.last_right_sync_press = Sweep(@)]
    /\ left_sync_pressed' = self.left_sync
    /\ right_sync_pressed' = self.right_sync
    /\ pc' = "drain"
    /\ result' = NoResult
    /\ hist' = [hist EXCEPT !.budget = Len(chan)]
    /\ UNCHANGED <<env, chan, connected>>

\* whether applying `frame` presses the side's sync button from released:
\* a NoteOn of velocity > 0 for note 35 or 83, p8.rs:199 and 207
Rising(s, side, frame) ==
    /\ Decode(frame).kind = "NoteOn"
    /\ Decode(frame).a = SyncNote(side)
    /\ Decode(frame).b > 0
    /\ ~s[P8NoteField(SyncNote(side))]

\* one turn of the drain loop: try_recv yields a frame, p8.rs:167-216
P8GetRecv ==
    /\ IsP8 /\ pc = "drain"
    /\ TryRecv(chan, connected).status = "Ok"
    /\ self' = P8Apply(self, TryRecv(chan, connected).message)
    /\ chan' = Tail(chan)
    /\ hist' = [Received(TryRecv(chan, connected).message) EXCEPT
                   !.rose = [side \in Sides |->
                               @[side] \/ Rising(self, side,
                                             TryRecv(chan, connected).message)]]
    /\ UNCHANGED <<env, connected, pc, left_sync_pressed,
                   right_sync_pressed, result>>

\* whether this return observes a sync edge of the side, p8.rs:218,227
EdgeSeen(side) ==
    IF side = "left" THEN self.left_sync /\ ~left_sync_pressed
    ELSE self.right_sync /\ ~right_sync_pressed

\* history: the first edge ever, then edges one tick (0.5 s) apart
Tapped(side) ==
    LET t == hist.taps[side] IN
    IF ~EdgeSeen(side) THEN t
    ELSE IF t.live /\ t.edges = 0 /\ hist.since_edge[side] = NoInstant
    THEN [edges |-> 1, live |-> TRUE]
    ELSE IF t.live /\ t.edges \in {1, 2} /\ hist.since_edge[side] = 1
    THEN [edges |-> t.edges + 1, live |-> TRUE]
    ELSE [edges |-> 0, live |-> FALSE]

\* try_recv yields Err: the loop ends, sync edges are processed, the name
\* is resolved and get returns, p8.rs:167 and 218-269.  get does not read
\* uniform_name before the final match, so the name is bound here.
P8GetReturn ==
    /\ IsP8 /\ pc = "drain"
    /\ TryRecv(chan, connected).status \in {"Empty", "Disconnected"}
    /\ self' = P8SyncEdges(self, left_sync_pressed, right_sync_pressed)
    /\ \E uniform_name \in env.uniforms :
          result' = [call |-> "get", name |-> uniform_name,
                     value |-> P8Route(self', uniform_name),
                     end |-> TryRecv(chan, connected).status]
    /\ pc' = "idle"
    /\ hist' = [hist EXCEPT
                   !.budget = 0,
                   !.closed = (@ \/ ~connected),
                   !.skipped = FALSE,
                   !.rose = [side \in Sides |-> FALSE],
                   !.since_edge = [side \in Sides |->
                                     IF EdgeSeen(side) THEN 0 ELSE @[side]],
                   !.taps = [side \in Sides |-> Tapped(side)]]
    /\ UNCHANGED <<env, chan, connected, left_sync_pressed,
                   right_sync_pressed>>

----------------------------------------------------------------------------

Next ==
    \/ Send
    \/ Disconnect
    \/ Tick
    \/ MidiSetName
    \/ MidiSetTime
    \/ MidiSetProperty
    \/ MidiGetEnter
    \/ MidiGetRecv
    \/ MidiGetReturn
    \/ P8SetName
    \/ P8GetEnter
    \/ P8GetRecv
    \/ P8GetReturn

Spec == Init /\ [][Next]_vars

----------------------------------------------------------------------------
(* Properties                                                              *)

\* a get call has returned and no later call is in progress
Returned == pc = "idle" /\ result.call = "get"

\* the notes the connected device can send
DeviceNotes ==
    {Decode(frame).a :
        frame \in {f \in env.device : Decode(f).kind \in {"NoteOn", "NoteOff"}}}

\* the slots at which two tables differ
Changed(before, after) == {i \in Slots : before[i] # after[i]}

(* C1: in the P8 provider, after a poll whose last applied frame is        *)
(* NoteOn(note, velocity > 0) get(<button of note>) returns true, and      *)
(* after a poll whose last applied frame is NoteOff(note) it returns       *)
(* false, for every mapped button note.                                    *)
C1_NoteOffReleasesButton ==
    (IsP8 /\ Returned) =>
        \A note \in P8Notes :
            result.name = P8NoteField(note) =>
                /\ hist.prev = NoteOnFrame(note, 127) => result.value.v = TRUE
                /\ hist.prev = NoteOffFrame(note, 0) => result.value.v = FALSE

(* C2: in the generic controller, in every reachable state and for every   *)
(* note i, NoteOn(i, velocity 0) leaves pressed[i], toggled[i] and         *)
(* toggled_time[i] exactly as NoteOff(i) applied to the same state would.  *)
C2_ReleaseFormsAgree ==
    IsMidi =>
        \A i \in DeviceNotes :
            LET on0 == MidiApply(self, NoteOnFrame(i, 0))
                off == MidiApply(self, NoteOffFrame(i, 0))
            IN  /\ on0.pressed[i] = off.pressed[i]
                /\ on0.toggled[i] = off.toggled[i]
                /\ on0.toggled_time[i] = off.toggled_time[i]

(* C3: in the generic controller, every step flips toggled[i] if and only  *)
(* if it changes pressed[i], for every index i.                            *)
C3_ToggleFlipsIffPressedChanges ==
    [][IsMidi =>
         Changed(self.toggled, self'.toggled)
             = Changed(self.pressed, self'.pressed)]_vars

(* C4: in the generic controller, when get receives the same frame as the  *)
(* frame received just before it (in the same poll or in the poll before), *)
(* the second copy changes neither pressed nor toggled.                    *)
C4_DuplicateChangesNothing ==
    [][(IsMidi /\ pc = "drain" /\ chan # <<>> /\ chan' = Tail(chan)
            /\ Head(chan) = hist.prev)
         => (self'.pressed = self.pressed /\ self'.toggled = self.toggled)]_vars

\* a second NoteOn(60, 127) in a row has been applied and the toggle has
\* flipped once
C4_Witness ==
    /\ IsMidi
    /\ hist.repeat
    /\ hist.prev = NoteOnFrame(60, 127)
    /\ self.pressed[60]
    /\ self.toggled[60]

\* the tempo state and the bpm uniform of a side
BpmOf(s, side) == IF side = "left" THEN s.left_bpm ELSE s.right_bpm
LastPressOf(s, side) ==
    IF side = "left" THEN s.last_left_sync_press ELSE s.last_right_sync_press
BpmName(side) == IF side = "left" THEN "left_bpm" ELSE "right_bpm"

(* C5: in the P8 provider, when the first sync edge ever of a side is      *)
(* followed by edges 0.5 s apart (t = 0 s, 0.5 s, 1.0 s), bpm is still its *)
(* initial 0 after the first edge and 120 after the second and after the   *)
(* third, and get("<side>_bpm") returns 120 then.                          *)
C5_TapTempo120 ==
    IsP8 =>
        \A side \in Sides :
            LET t == hist.taps[side] IN
            t.live =>
                /\ t.edges = 1 => BpmOf(self, side) = 0
                /\ t.edges \in {2, 3} => BpmOf(self, side) = 120000
                /\ (t.edges \in {2, 3} /\ Returned /\ result.name = BpmName(side))
                       => result.value.v = 120000

\* the third left edge, 1.0 s after the first, has been observed and
\* get("left_bpm") has returned 120
C5_Witness ==
    /\ IsP8
    /\ hist.taps["left"] = [edges |-> 3, live |-> TRUE]
    /\ Returned
    /\ result.name = "left_bpm"
    /\ result.value.v = 120000

(* C6: in the P8 provider, a get call that observes a sync edge more than  *)
(* 2 seconds after the previously observed edge of that side leaves bpm    *)
(* unchanged and sets a fresh reference timestamp.                         *)
C6_StaleGapNeverUpdatesBpm ==
    [][(IsP8 /\ pc = "drain" /\ pc' = "idle") =>
         \A side \in Sides :
            (/\ EdgeSeen(side)
             /\ hist.since_edge[side] # NoInstant
             /\ Millis(hist.since_edge[side]) > 2000)
            => (/\ BpmOf(self', side) = BpmOf(self, side)
                /\ LastPressOf(self', side) = 0)]_vars

\* the slot an indexed name stands for
SlotOf(s, prefix, n) ==
    IF prefix = W_pressed_time THEN Some("Float", s.pressed_time[n] * 1000)
    ELSE IF prefix = W_pressed THEN Some("Bool", s.pressed[n])
    ELSE IF prefix = W_toggled THEN Some("Bool", s.toggled[n])
    ELSE Some("Int", s.values[n])

(* C7: in the generic controller, get("<prefix>.<n>") with prefix          *)
(* pressed, toggled, value or pressed_time returns absent when n >= 1024   *)
(* and the scalar at index n when n < 1024; it never fails.                *)
C7_IndexedLookupBounds ==
    (IsMidi /\ Returned) =>
        \A prefix \in IndexedPrefixes, n \in ProbeIndexes :
            result.name = Name(prefix, n) =>
                IF n >= TableLen
                THEN result.value.type = "None"
                ELSE /\ result.value.type = SlotOf(self, prefix, n).type
                     /\ result.value.v = SlotOf(self, prefix, n).v

\* get("value.1024"), the first index past the table, has returned absent
C7_Witness ==
    /\ IsMidi
    /\ Returned
    /\ result.name = Name(W_value, TableLen)
    /\ result.value.type = "None"

\* what queries can observe of the provider: everything but the
\* controller's name and host time and the P8's reference Instants
Observable(s) ==
    IF s.provider = "MidiProvider"
    THEN <<s.pressed, s.pressed_time, s.toggled, s.toggled_time, s.values>>
    ELSE <<[s EXCEPT !.last_left_sync_press = NoInstant,
                     !.last_right_sync_press = NoInstant]>>

(* C8: once the producer has disconnected, a get call returns only after   *)
(* it has received every frame still buffered, it returns a value and      *)
(* never fails; and once such a call has returned, the channel stays       *)
(* empty and no step changes what queries observe.                         *)
C8_ClosedChannelKeepsState ==
    [][~connected =>
         /\ (pc = "drain" /\ pc' = "idle") =>
                /\ chan = <<>>
                /\ result'.call = "get"
                /\ result'.end = "Disconnected"
                /\ result'.value.type # "Panic"
         /\ (pc = "drain" /\ chan # <<>> /\ chan' # chan) =>
                /\ chan' = Tail(chan)
                /\ hist'.prev = Head(chan)
         /\ hist.closed =>
                /\ chan = <<>> /\ chan' = <<>>
                /\ Observable(self') = Observable(self)]_vars

\* after the disconnect a buffered NoteOn(60, 127) was received and
\* applied, and get("pressed.60") returned true when the channel reported
\* Disconnected
C8_Witness ==
    /\ IsMidi
    /\ ~connected
    /\ hist.late
    /\ hist.prev = NoteOnFrame(60, 127)
    /\ Returned
    /\ result.end = "Disconnected"
    /\ result.name = Name(W_pressed, 60)
    /\ result.value.v = TRUE

GetRecv == MidiGetRecv \/ P8GetRecv
GetReturn == MidiGetReturn \/ P8GetReturn

(* C9 as claimed: a get call receives at most the frames that were         *)
(* buffered when it started.                                               *)
C9_PollBoundedByEntryBacklog == hist.budget >= 0

(* C9 as amended: inside get the host thread never waits: while the        *)
(* channel holds a frame the next turn of the loop receives it (also a     *)
(* frame pushed during the drain) and get cannot return, and as soon as    *)
(* the channel is empty get returns.                                       *)
C9_DrainNeverWaits ==
    pc = "drain" =>
        IF chan = <<>>
        THEN ENABLED GetReturn /\ ~ENABLED GetRecv
        ELSE ENABLED GetRecv /\ ~ENABLED GetReturn

\* a get call has received more frames than were buffered at its entry,
\* finds the channel empty with the producer still connected, and is about
\* to return
C9_Witness ==
    /\ pc = "drain"
    /\ hist.budget < 0
    /\ chan = <<>>
    /\ connected

(* C10: in every reachable state get answers every name of provides():     *)
(* for the generic controller, whatever name set_name has set, with the    *)
(* whole 1024-slot table as a sequence; for the P8 with a value.           *)
C10_ProvidedNamesAnswered ==
    /\ IsMidi =>
          \A uniform_name \in MidiProvides(self) :
              LET value == MidiRoute(self, uniform_name) IN
              /\ value.type \in {"BoolArray", "ByteArray"}
              /\ Len(value.v) = TableLen
    /\ IsP8 =>
          \A uniform_name \in P8Provides :
              P8Route(self, uniform_name).type \in {"Float", "Bool"}

\* a get call returns: the step from the drain loop back to the host
Returns == pc = "drain" /\ pc' = "idle"

(* C11: in the P8 provider, whenever a rising edge of a side's sync button  *)
(* (a NoteOn of velocity > 0 for note 35 or 83, applied while the sync      *)
(* state is false) was applied during a poll, that poll sets the side's     *)
(* reference timestamp to the time of the poll, also when a release was     *)
(* drained in the same poll.                                                *)
C11_EveryRisingEdgeSetsReference ==
    [][(IsP8 /\ Returns) =>
         \A side \in Sides :
            hist.rose[side] => LastPressOf(self', side) = 0]_vars

(* C12: in the P8 provider, a step changes a side's bpm only if it is the  *)
(* return of a poll across which that side's sync button went from not     *)
(* pressed to pressed, with a reference timestamp present; and the entry   *)
(* of a poll (the staleness sweep) changes nothing but the reference       *)
(* timestamps.                                                             *)
C12_BpmChangesOnlyOnEdge ==
    [][IsP8 =>
         /\ \A side \in Sides :
               BpmOf(self', side) # BpmOf(self, side)
                   => /\ Returns
                      /\ EdgeSeen(side)
                      /\ LastPressOf(self, side) # NoInstant
         /\ (pc = "idle" /\ pc' = "drain")
               => Observable(self') = Observable(self)]_vars

\* a poll has swept the left reference timestamp three seconds after the
\* last edge, and left_bpm still holds the 120 computed before
C12_Witness ==
    /\ IsP8
    /\ pc = "drain"
    /\ self.left_bpm = 120000
    /\ self.last_left_sync_press = NoInstant
    /\ hist.since_edge["left"] = MaxElapsed

(* C13: in the P8 provider, a poll that observes a sync edge whose         *)
(* interval to the reference timestamp is zero leaves bpm unchanged (never *)
(* the quotient by a zero interval), and still moves the reference         *)
(* timestamp to the new edge.                                              *)
C13_ZeroIntervalNeverUpdatesBpm ==
    [][(IsP8 /\ Returns) =>
         \A side \in Sides :
            (EdgeSeen(side) /\ LastPressOf(self, side) = 0)
                => /\ BpmOf(self', side) = BpmOf(self, side)
                   /\ BpmOf(self', side) # Infinity
                   /\ LastPressOf(self', side) = 0]_vars

\* the provider after the drain loop has applied `frames` in order
RECURSIVE ApplyAll(_, _)
ApplyAll(s, frames) ==
    IF frames = <<>> THEN s
    ELSE ApplyAll(IF s.provider = "MidiProvider"
                  THEN MidiApply(s, Head(frames))
                  ELSE P8Apply(s, Head(frames)),
                  Tail(frames))

\* the controls of the connected device that the P8 maps to a knob
MappedControls == DeviceControls \cap P8Controls

(* C14: in every reachable state, once the frames still buffered are       *)
(* applied in order, the continuous value of every control equals the      *)
(* value of the last ControlChange the producer sent for it (0 if none):   *)
(* no frame is lost, repeated or reordered.  A get call that returns with  *)
(* the channel drained returns that value ("value.<c>" as is, a P8 knob    *)
(* divided by 127), and in the P8 a ControlChange for an unmapped control  *)
(* changes nothing.                                                        *)
C14_LastControlChangeWins ==
    /\ IsMidi =>
          \A c \in DeviceControls :
              /\ ApplyAll(self, chan).values[c] = hist.cc[c]
              /\ (Returned /\ chan = <<>> /\ result.name = Name(W_value, c))
                     => result.value = Some("Int", hist.cc[c])
    /\ IsP8 =>
          /\ \A c \in MappedControls :
                /\ ApplyAll(self, chan)[P8ControlField(c)] = hist.cc[c]
                /\ (Returned /\ chan = <<>> /\ result.name = P8ControlField(c))
                       => result.value
                              = Some("Float", (hist.cc[c] * 1000) \div 127)
          /\ \A c \in DeviceControls \ P8Controls, value \in {0, 64, 127} :
                P8Apply(self, ControlChangeFrame(c, value)) = self

\* the P8 has drained ControlChange(68, 64) as the last frame sent and
\* get("left_low") has returned 64/127 while right_mid holds a value too
C14_Witness ==
    /\ IsP8
    /\ Returned
    /\ chan = <<>>
    /\ hist.prev = ControlChangeFrame(68, 64)
    /\ hist.cc[68] = 64
    /\ self.right_mid = 64
    /\ result.name = "left_low"
    /\ result.value = Some("Float", 503)

\* frames neither provider acts on: empty, undecodable, of a kind no arm
\* names; and in the P8, which has no NoteOff arm, the note-offs
Unusable ==
    {EmptyFrame, TruncatedFrame, PitchBendFrame}
    \cup (IF IsP8 THEN {NoteOffFrame(note, 0) : note \in P8Notes} ELSE {})

(* C15: a step of the drain loop that receives an empty frame, an          *)
(* undecodable frame or a frame of an unrecognized kind leaves the whole   *)
(* provider state unchanged and stays in the loop; and get returns only    *)
(* when no frame is left in the channel, so the frames buffered behind it  *)
(* are received in the same poll.                                          *)
C15_UnusableFrameSkipped ==
    [][/\ (pc = "drain" /\ chan # <<>> /\ chan' = Tail(chan)
               /\ Head(chan) \in Unusable)
           => (self' = self /\ pc' = "drain")
       /\ Returns => chan = <<>>]_vars

\* in one poll of the generic controller an unusable frame was received
\* and the NoteOn(60, 127) buffered behind it was then applied
C15_Witness ==
    /\ IsMidi
    /\ pc = "drain"
    /\ hist.skipped
    /\ hist.prev = NoteOnFrame(60, 127)
    /\ self.pressed[60]

\* a turn of the drain loop: try_recv hands out the oldest buffered frame
Receives == pc = "drain" /\ chan # <<>> /\ chan' = Tail(chan)

(* C16: in the generic controller, pressed_time and toggled_time change    *)
(* only when the drain loop applies an edge, and the value stamped is the  *)
(* host time of that poll (the last set_time value): a rising edge at i    *)
(* stamps pressed_time[i] and toggled_time[i], a NoteOff of a pressed i    *)
(* stamps toggled_time[i] only, and any step that applies no edge changes  *)
(* neither table.                                                          *)
C16_EdgesStampHostTime ==
    [][IsMidi =>
         IF Receives
         THEN LET m == Decode(Head(chan))
                  rising == m.kind = "NoteOn" /\ m.b > 0 /\ ~self.pressed[m.a]
                  release == m.kind = "NoteOff" /\ self.pressed[m.a]
                  release0 == m.kind = "NoteOn" /\ m.b = 0 /\ self.pressed[m.a]
              IN  /\ rising =>
                        /\ self'.pressed_time
                               = [self.pressed_time EXCEPT ![m.a] = self.time]
                        /\ self'.toggled_time
                               = [self.toggled_time EXCEPT ![m.a] = self.time]
                  /\ release =>
                        /\ self'.pressed_time = self.pressed_time
                        /\ self'.toggled_time
                               = [self.toggled_time EXCEPT ![m.a] = self.time]
                  /\ ~(rising \/ release \/ release0) =>
                        /\ self'.pressed_time = self.pressed_time
                        /\ self'.toggled_time = self.toggled_time
         ELSE /\ self'.pressed_time = self.pressed_time
              /\ self'.toggled_time = self.toggled_time]_vars

\* key 60 was pressed in a poll at host time 1 and released by a NoteOff
\* in a poll at host time 0: only toggled_time[60] was stamped again
C16_Witness ==
    /\ IsMidi
    /\ hist.prev = NoteOffFrame(60, 0)
    /\ ~self.pressed[60]
    /\ self.pressed_time[60] = 1
    /\ self.toggled_time[60] = 0

\* what a further get(uniform_name) returns when it is entered in state s
\* and receives no frame: sweep and snapshot, an empty drain, the sync edge
\* test, the name resolution
Again(s, uniform_name) ==
    IF s.provider = "MidiProvider" THEN MidiRoute(s, uniform_name)
    ELSE LET swept == [s EXCEPT !.last_left_sync_press = Sweep(@),
                                !.last_right_sync_press = Sweep(@)]
         IN  P8Route(P8SyncEdges(swept, swept.left_sync, swept.right_sync),
                     uniform_name)

(* C17: the return step of get, which resolves the name, leaves the        *)
(* tables of the generic controller and the knobs and buttons of the P8    *)
(* as the drain loop left them; and whenever a get call has returned and   *)
(* no frame is buffered (and the provider was not renamed), a further get  *)
(* call for the same name returns the same value, for every name the host  *)
(* asks for (known, unknown, in range or out of range).                    *)
C17_ResolvingMutatesNothing ==
    [][/\ Returns =>
             IF IsMidi THEN self' = self
             ELSE \A field \in P8KnobNames \cup P8ButtonNames :
                     self'[field] = self[field]
       /\ (Returned /\ chan = <<>> /\ ~hist.renamed)
             => Again(self, result.name) = result.value]_vars

\* get("left_bpm") has returned 120 and the sync button is still held one
\* second after its edge: a further call finds the button pressed, sees no
\* edge and returns 120 again
C17_Witness ==
    /\ IsP8
    /\ Returned
    /\ chan = <<>>
    /\ result.name = "left_bpm"
    /\ result.value = Some("Float", 120000)
    /\ self.left_sync
    /\ self.last_left_sync_press = 2

\* the segment after the first '.' of a name is missing or is not a
\* non-negative integer (digits, which parse::<usize> also takes with a
\* leading '+')
NoIndex(uniform_name) ==
    \/ ~SplitNth1(uniform_name).some
    \/ ~ParseUsize(SplitNth1(uniform_name).v).ok

(* C18: in the generic controller, get("pressed_time.<i>") with i < 1024   *)
(* returns the press timestamp of i as a float, not the pressed boolean;   *)
(* and get of a name whose segment after the first '.' is missing or not   *)
(* a non-negative integer returns what the provider-scoped names give:     *)
(* the table of "<name>.pressed", "<name>.toggled" or "<name>.values",     *)
(* and absent for any other name.                                          *)
C18_FirstMatchWins ==
    (IsMidi /\ Returned /\ ~hist.renamed) =>
        /\ \A n \in ProbeIndexes :
              (n < TableLen /\ result.name = Name(W_pressed_time, n))
                  => result.value = Some("Float", self.pressed_time[n] * 1000)
        /\ NoIndex(result.name)
              => result.value = MidiAggregate(self, result.name)

\* the provider is named "value" and get("value.pressed"), which starts
\* with the indexed prefix "value", has returned the pressed table
C18_Witness ==
    /\ IsMidi
    /\ Returned
    /\ ~hist.renamed
    /\ self.name = W_value
    /\ result.name = W_value \o Dot \o W_pressed
    /\ result.value.type = "BoolArray"
    /\ result.value.v[6]

(* C19: in the generic controller, as long as no NoteOn of velocity 0 has  *)
(* released a pressed index, toggled[i] = pressed[i] for every index i.    *)
C19_ToggledFollowsPressed ==
    (IsMidi /\ ~hist.zeroed) => self.toggled = self.pressed

\* key 60 was pressed at host time 0 and released by a NoteOff at host
\* time 1, no NoteOn of velocity 0 was involved, and both its pressed and
\* its toggled state are false again
C19_Witness ==
    /\ IsMidi
    /\ ~hist.zeroed
    /\ hist.prev = NoteOffFrame(60, 0)
    /\ self.pressed_time[60] = 0
    /\ self.toggled_time[60] = 1
    /\ ~self.pressed[60]
    /\ ~self.toggled[60]

\* the controls and notes of a side of the P8, p8.rs:177-183 and 190-208
SideControls(side) == IF side = "left" THEN {68, 70, 72} ELSE {80, 82, 84}
SideNotes(side) ==
    IF side = "left" THEN {25, 26, 27, 28, 33, 34, 35, 99}
    ELSE {73, 74, 75, 76, 81, 82, 83, 47}
OtherSide(side) == IF side = "left" THEN "right" ELSE "left"

\* the knobs and buttons of a side
SideFields(side) ==
    {P8ControlField(c) : c \in SideControls(side)}
    \cup {P8NoteField(n) : n \in SideNotes(side)}

\* whether a frame is a message of the side
OfSide(frame, side) ==
    LET m == Decode(frame) IN
    \/ m.kind = "ControlChange" /\ m.a \in SideControls(side)
    \/ m.kind \in {"NoteOn", "NoteOff"} /\ m.a \in SideNotes(side)

\* messages of a side tried on the states in which a frame is received: a
\* knob, the play button, and a press and a release of the sync button
SideProbes(side) ==
    IF side = "left"
    THEN {ControlChangeFrame(68, 64), NoteOnFrame(33, 127),
          NoteOnFrame(35, 127), NoteOnFrame(35, 0)}
    ELSE {ControlChangeFrame(80, 64), NoteOnFrame(81, 127),
          NoteOnFrame(83, 127), NoteOnFrame(83, 0)}

\* the P8 without its tempo state
KnobsAndButtons(s) ==
    [s EXCEPT !.left_bpm = 0, !.last_left_sync_press = NoInstant,
              !.right_bpm = 0, !.last_right_sync_press = NoInstant]

\* the tempo state of a side
TempoOf(s, side) == <<BpmOf(s, side), LastPressOf(s, side)>>

\* the note tables of the generic controller
NoteTables == {"pressed", "toggled", "pressed_time", "toggled_time"}

\* table `after` is table `before` but for its entry at i
OnlyAt(before, after, i) == after = [before EXCEPT ![i] = after[i]]

(* C20: state changes only inside get and only where a message points.   *)
(* Generic controller: a step that is no turn of the drain loop (the       *)
(* producer's send, set_time, set_name, set_property, entry and return of  *)
(* get) changes none of pressed, toggled, values; a note message at i      *)
(* changes no entry of an index other than i and leaves values alone; a    *)
(* ControlChange at c changes nothing but values[c].  P8: only a turn of   *)
(* the drain loop changes a knob or button; a message of one side changes  *)
(* no knob or button of the other side; the return of a poll changes a     *)
(* side's tempo state only if a rising sync edge of that side was applied  *)
(* in the poll; and wherever the drain loop receives a frame, a message of *)
(* one side applied instead would change no knob or button of the other    *)
(* side and nothing of what the sync edge test makes of the other side's   *)
(* tempo state.                                                            *)
C20_ChangesStayLocal ==
    [][/\ IsMidi =>
            IF Receives
            THEN LET m == Decode(Head(chan)) IN
                 /\ m.kind \in {"NoteOn", "NoteOff"} =>
                       /\ \A table \in NoteTables :
                             OnlyAt(self[table], self'[table], m.a)
                       /\ self'.values = self.values
                 /\ m.kind = "ControlChange" =>
                       /\ \A table \in NoteTables :
                             self'[table] = self[table]
                       /\ OnlyAt(self.values, self'.values, m.a)
            ELSE /\ self'.pressed = self.pressed
                 /\ self'.toggled = self.toggled
                 /\ self'.values = self.values
       /\ IsP8 =>
            /\ ~Receives => KnobsAndButtons(self') = KnobsAndButtons(self)
            /\ Returns =>
                  \A side \in Sides :
                      TempoOf(self', side) # TempoOf(self, side)
                          => hist.rose[side]
            /\ Receives =>
                  \A side \in Sides :
                      /\ OfSide(Head(chan), side) =>
                            \A field \in SideFields(OtherSide(side)) :
                                self'[field] = self[field]
                      /\ \A frame \in SideProbes(side) :
                            LET after == P8Apply(self, frame)
                                other == OtherSide(side)
                            IN  /\ \A field \in SideFields(other) :
                                      after[field] = self[field]
                                /\ TempoOf(P8SyncEdges(after,
                                               left_sync_pressed,
                                               right_sync_pressed), other)
                                     = TempoOf(P8SyncEdges(self,
                                                   left_sync_pressed,
                                                   right_sync_pressed), other)]_vars

\* in a poll of the P8 ControlChange(68, 64), a left-side message, was
\* applied last while the right-side knob and button hold what earlier
\* messages set
C20_Witness ==
    /\ IsP8
    /\ pc = "drain"
    /\ hist.prev = ControlChangeFrame(68, 64)
    /\ self.left_low = 64
    /\ self.right_mid = 64
    /\ self.right_cue

============================================================================
